---- MODULE Spec2Model ----
(***************************************************************************)
(* The chat relay server of src/server.py (class ChatServer) as a state     *)
(* machine: the accept loop (start), one session handler per accepted       *)
(* connection (handle_client), the broadcaster (broadcast_message), the     *)
(* clock-sync responder (handle_clock_sync_request) and shutdown, all       *)
(* sharing self.clients under self.clients_lock.                            *)
(*                                                                          *)
(* The environment (clients, the network, the operator's Ctrl-C) is         *)
(* nondeterministic: which data a recv returns, whether a send on an open   *)
(* handle succeeds, when a KeyboardInterrupt reaches the main thread, and   *)
(* when some other thread of the embedding program calls shutdown().        *)
(*                                                                          *)
(* With it, the client program of src/client.py (class ChatClient): its     *)
(* receiving thread (_connect, receive_messages), its clock-sync exchange   *)
(* (request_clock_sync, handle_clock_sync_response) and the estimator of    *)
(* src/utils.py (CristianClockSync.calculate_offset), on a machine whose    *)
(* clock differs from the server's by a skew, over a network with delays.   *)
(***************************************************************************)
EXTENDS Integers, Sequences, FiniteSets, TLC

\* ------------------------------------------------------------------ bounds
MaxConns == 2      \* connections the environment ever opens
MaxReads == 2      \* data reads (non-empty recv results) over all sessions
MaxClock == 1      \* the server clock runs over 0..MaxClock
MaxSyncs == 1      \* clock-sync requests the client makes

Conns == 1..MaxConns                 \* connection handles (client_socket)
Main == 0                            \* the thread running start()
Ext == MaxConns + 1                  \* another thread calling shutdown()
Sessions == Conns                    \* handle_client thread of handle c is c
Threads == 0..(MaxConns + 1)
NoThread == 0 - 1                    \* clients_lock is free

\* ------------------------------------------------------- data on the wire
\* What a recv hands to handle_client, by what decoding and parsing make of
\* it.  kind "bytes": bytes that are not valid UTF-8; "text": text that is
\* not JSON; "falsy": JSON for a falsy value (0, "", [], {}, null, false);
\* "nonrecord": JSON for a truthy value that is no object ([1], 7, "x");
\* "record": a JSON object with a type (and the fields given).
Contents == {"hi"}
ClientStamps == {1000}
SyncStamps == {5000}
NoData == [kind |-> "none"]
ChatIn(c, t) == [kind |-> "record", type |-> "chat", content |-> c,
                 client_timestamp |-> t]
SyncIn(x) == [kind |-> "record", type |-> "clock_sync_request",
              client_time_before |-> x]
OtherIn == [kind |-> "record", type |-> "user_join"]
Malformed == {[kind |-> "bytes"], [kind |-> "text"], [kind |-> "nonrecord"]}
Inputs == Malformed \cup {[kind |-> "falsy"], OtherIn}
            \cup {ChatIn(c, t) : c \in Contents, t \in ClientStamps}
            \cup {SyncIn(x) : x \in SyncStamps}

\* What the client's surroundings can be: the two machines' clocks differ by
\* a skew, each direction of the network takes its own delay, and the client's
\* clock shows some time when the program starts.
Skews == {0 - 1, 0, 900}
Delays == {0, 1, 100}
StartTimes == {5000, 5001}

\* Messages of a type the client does not dispatch on
ClientOtherIn == {[kind |-> "record", type |-> t] :
                    t \in {"chat", "clock_sync_request", "ping"}}
\* Messages the server's broadcasts put on the client's connection
ClientShownIn == {[kind |-> "record", type |-> t] :
                    t \in {"broadcast", "user_join", "user_leave"}}
ClientInputs == Malformed \cup {[kind |-> "falsy"]} \cup ClientOtherIn
                  \cup ClientShownIn

\* Faulty variant of ClientId: off by one, f"Client_{n - 1}".
ClientIdOffByOne(n) == <<"Client_", n - 1>>

\* f"Client_{n}"
ClientId(n) == <<"Client_", n>>

\* ------------------------------------------------------------------ state
VARIABLES
  running,        \* self.running
  server_socket,  \* self.server_socket: "none" (None), "open", "closed"
  clients,        \* self.clients, in insertion order: <<[sock, id], ...>>
  clients_lock,   \* the thread holding self.clients_lock, or NoThread
  sock,           \* server side of handle c: "unaccepted", "open", "closed"
  link,           \* the peer's side of connection c: "up" or "down"
  pc,             \* where each thread is
  newc,           \* start()'s locals client_socket, client_id
  client_id,      \* handle_client's argument client_id
  cur,            \* handle_client's local message (the last data read)
  bc,             \* the broadcast_message call each thread is in
  now,            \* the last value CristianClockSync.get_server_time() gave
  nreads,         \* data reads so far
  inbox,          \* the message last sent successfully on each connection
  rmCount,        \* removals of c from self.clients
  leaveCount,     \* completed user_leave broadcasts made by session c
  nAdds,          \* completed registry adds
  nRemoves,       \* completed registry removes
  shutdowns,      \* completed shutdown() calls
  seq,            \* the position, in arrival order, of the chat session c is
                  \* relaying (0: none)
  gotFrom,        \* gotFrom[r][c]: the positions of the chats read from c
                  \* whose broadcasts were delivered to r, in delivery order
  \* --- the client program (src/client.py) and what surrounds it
  crunning,       \* ChatClient.running
  csocket,        \* ChatClient.socket: "none", "unconnected", "connected", "closed"
  cpc,            \* where the client's receiving thread is
  cmsg,           \* receive_messages' local message (the last data read)
  wire,           \* the clock-sync message in flight between client and server
  csent,          \* messages the client has sent
  clock_offset,   \* ChatClient.clock_offset, in half milliseconds
  sync_confidence,   \* ChatClient.sync_confidence, in half milliseconds
  local_time_offset, \* drift_simulator.local_time_offset, in half milliseconds
  estimate,       \* the last calculate_offset call: its arguments and result
  ctime,          \* the client machine's clock, int(time.time() * 1000)
  skew,           \* the server machine's clock minus the client machine's
  delay           \* the network's one-way delays: [out, back], in ms

\* The client's variables
cvars == <<crunning, csocket, cpc, cmsg, wire, csent, clock_offset,
           sync_confidence, local_time_offset, estimate, ctime, skew, delay>>

\* The server's variables
svars == <<running, server_socket, clients, clients_lock, sock, link, pc,
           newc, client_id, cur, bc, now, nreads, inbox, rmCount, leaveCount,
           nAdds, nRemoves, shutdowns, seq, gotFrom>>

vars == <<svars, cvars>>

NoConn == [sock |-> 0, id |-> ClientId(0)]
NoMsg == [type |-> "none"]
NoCall == [msg |-> NoMsg, snap |-> <<>>, todo |-> <<>>, att |-> <<>>, ok |-> {}]

NoEstimate == [args |-> <<>>]

\* ChatServer.__init__
ServerInit ==
  /\ running = TRUE
  /\ server_socket = "none"
  /\ clients = <<>>
  /\ clients_lock = NoThread
  /\ sock = [c \in Conns |-> "unaccepted"]
  /\ link = [c \in Conns |-> "up"]
  /\ pc = [t \in Threads |-> IF t = Main THEN "start"
                             ELSE IF t = Ext THEN "idle" ELSE "none"]
  /\ newc = NoConn
  /\ client_id = [c \in Conns |-> ClientId(0)]
  /\ cur = [c \in Conns |-> NoData]
  /\ bc = [t \in Threads |-> NoCall]
  /\ now = 0
  /\ nreads = 0
  /\ inbox = [c \in Conns |-> NoMsg]
  /\ rmCount = [c \in Conns |-> 0]
  /\ leaveCount = [c \in Conns |-> 0]
  /\ nAdds = 0
  /\ nRemoves = 0
  /\ shutdowns = 0
  /\ seq = [c \in Conns |-> 0]
  /\ gotFrom = [r \in Conns |-> [c \in Conns |-> <<>>]]

\* ChatClient.__init__ (and ClockDriftSimulator.__init__)
ClientInit ==
  /\ crunning = TRUE
  /\ csocket = "none"
  /\ cpc = "connect"
  /\ cmsg = NoData
  /\ wire = NoMsg
  /\ csent = 0
  /\ clock_offset = 0
  /\ sync_confidence = 0
  /\ local_time_offset = 0
  /\ estimate = NoEstimate

\* The server and a client program started on machines whose clocks agree,
\* joined by a network without delay.
Init ==
  /\ ServerInit
  /\ ClientInit
  /\ ctime = 5000
  /\ skew = 0
  /\ delay = [out |-> 0, back |-> 0]

\* The same programs in any of the surroundings above.
InitAnywhere ==
  /\ ServerInit
  /\ ClientInit
  /\ ctime \in StartTimes
  /\ skew \in Skews
  /\ delay \in [out : Delays, back : Delays]

\* ------------------------------------------------------------ the registry
Handles(reg) == {reg[i].sock : i \in DOMAIN reg}

\* Faulty variant of RegistryAdd: the assignment rebinds the whole mapping.
RegistryAddReplace(reg, h, id) == <<[sock |-> h, id |-> id]>>

\* self.clients[client_socket] = client_info
RegistryAdd(reg, h, id) ==
  IF h \in Handles(reg)
  THEN [i \in DOMAIN reg |-> IF reg[i].sock = h THEN [sock |-> h, id |-> id]
                                                ELSE reg[i]]
  ELSE Append(reg, [sock |-> h, id |-> id])

\* Faulty variants of RegistryRemove: the del is missing; the mapping is cleared.
RegistryRemoveNone(reg, h) == reg
RegistryRemoveAll(reg, h) == <<>>

\* if client_socket in self.clients: del self.clients[client_socket]
RegistryRemove(reg, h) == SelectSeq(reg, LAMBDA e : e.sock # h)

\* Faulty variant of Snapshot: the newest entry is left out.
SnapshotButLast(reg) == [i \in 1..(Len(reg) - 1) |-> reg[i].sock]

\* list(self.clients.keys())
Snapshot(reg) == [i \in DOMAIN reg |-> reg[i].sock]


\* ------------------------------------------------------------- the messages
\* broadcast_message's message dict: type, server_timestamp, **kwargs
JoinMsg(id, ts) == [type |-> "user_join", server_timestamp |-> ts,
                    user_id |-> id, message |-> <<id, " joined the chat">>]
LeaveMsg(id, ts) == [type |-> "user_leave", server_timestamp |-> ts,
                     user_id |-> id, message |-> <<id, " left the chat">>]
\* Faulty variant of ChatMsg: the client's timestamp is not echoed.
ChatMsgNoEcho(id, m, ts) == [type |-> "broadcast", server_timestamp |-> ts,
                             user_id |-> id, message |-> m.content,
                             client_timestamp |-> ts]
ChatMsg(id, m, ts) == [type |-> "broadcast", server_timestamp |-> ts,
                       user_id |-> id, message |-> m.content,
                       client_timestamp |-> m.client_timestamp]
\* Faulty variant of SyncResponse: the two times are swapped.
SyncResponseSwapped(request, s) ==
  [type |-> "clock_sync_response", server_time |-> request.client_time_before,
   client_time_before |-> s]
\* handle_clock_sync_request's response dict
SyncResponse(request, s) == [type |-> "clock_sync_response", server_time |-> s,
                             client_time_before |-> request.client_time_before]

\* Faulty variant of Outcome: a record of an unknown type is an error.
OutcomeStrict(data) ==
  IF data.kind \in {"bytes", "nonrecord"} THEN "raise"
  ELSE IF data.kind \in {"text", "falsy"} THEN "continue"
  ELSE IF data.type = "clock_sync_request" THEN "sync"
  ELSE IF data.type = "chat" THEN "chat"
  ELSE "raise"

\* What handle_client does with one non-empty recv result:
\*   "raise"    an exception leaves the loop (.decode fails, or message.get
\*              is called on something that is no dict)
\*   "continue" parse_message gave None, or the parsed value is falsy
\*   "sync", "chat"  the two dispatched types;  "ignore"  any other type
Outcome(data) ==
  IF data.kind = "bytes" THEN "raise"
  ELSE IF data.kind = "text" THEN "continue"
  ELSE IF data.kind = "falsy" THEN "continue"
  ELSE IF data.kind = "nonrecord" THEN "raise"
  ELSE IF data.type = "clock_sync_request" THEN "sync"
  ELSE IF data.type = "chat" THEN "chat"
  ELSE "ignore"

\* A broadcast_message call that has built its message and waits for the lock
Call(msg) == [msg |-> msg, snap |-> <<>>, todo |-> <<>>, att |-> <<>>, ok |-> {}]

\* Where a thread goes on when its broadcast_message call returns
ReturnPc(msg) == IF msg.type = "user_join" THEN "spawn"
                 ELSE IF msg.type = "user_leave" THEN "fin_close"
                 ELSE "check"

\* ---------------------------------------------------------- environment
\* CristianClockSync.get_server_time(): the values a read of the clock can
\* give, the clock having given `last` before (time does not run backwards).
ClockReads(last) == last..MaxClock

\* The peer of a connection can go away (close, crash, reset) at any moment.
\* Nothing in the server sees that before it next uses the handle, so the
\* model lets it happen at those uses: LinkAt(h) are the states the peer's
\* side can be found in by a send or recv on h.
LinkAt(h) == IF link[h] = "up" THEN {"up", "down"} ELSE {"down"}

\* socket.send on handle h, the peer's side being l: it goes through when the
\* server's handle is open and the peer is still there, and raises otherwise.
SendOk(h, l) == sock[h] = "open" /\ l = "up"

\* ------------------------------------------------------ start(): accept loop
\* socket(), bind(), listen()
Start ==
  /\ pc[Main] = "start"
  /\ server_socket' = "open"
  /\ pc' = [pc EXCEPT ![Main] = "check"]
  /\ UNCHANGED <<running, clients, clients_lock, sock, link, newc, client_id,
                 cur, bc, now, nreads, inbox, rmCount, leaveCount, nAdds,
                 nRemoves, shutdowns, seq, gotFrom, cvars>>

\* while self.running:   (a false test falls through to finally: shutdown())
LoopCheck ==
  /\ pc[Main] = "check"
  /\ pc' = [pc EXCEPT ![Main] = IF running THEN "accept" ELSE "sd_stop"]
  /\ UNCHANGED <<running, server_socket, clients, clients_lock, sock, link,
                 newc, client_id, cur, bc, now, nreads, inbox, rmCount,
                 leaveCount, nAdds, nRemoves, shutdowns, seq, gotFrom, cvars>>

\* accept() returns the next new connection; client_id is built from
\* len(self.clients), read without the lock.
Accept ==
  /\ pc[Main] = "accept"
  /\ server_socket = "open"
  /\ \E c \in Conns :
       /\ sock[c] = "unaccepted"
       /\ \A d \in Conns : d < c => sock[d] # "unaccepted"
       /\ sock' = [sock EXCEPT ![c] = "open"]
       /\ newc' = [sock |-> c, id |-> ClientId(Len(clients) + 1)]
  /\ pc' = [pc EXCEPT ![Main] = "add"]
  /\ UNCHANGED <<running, server_socket, clients, clients_lock, link,
                 client_id, cur, bc, now, nreads, inbox, rmCount, leaveCount,
                 nAdds, nRemoves, shutdowns, seq, gotFrom, cvars>>

\* accept() raises (the listening socket was closed, or the system refuses):
\* except Exception, and the loop goes on
AcceptFail ==
  /\ pc[Main] = "accept"
  /\ pc' = [pc EXCEPT ![Main] = "check"]
  /\ UNCHANGED <<running, server_socket, clients, clients_lock, sock, link,
                 newc, client_id, cur, bc, now, nreads, inbox, rmCount,
                 leaveCount, nAdds, nRemoves, shutdowns, seq, gotFrom, cvars>>

\* with self.clients_lock: self.clients[client_socket] = client_info
\* and then the call broadcast_message(user_join), which stamps its message.
Register ==
  /\ pc[Main] = "add"
  /\ clients_lock = NoThread
  /\ clients' = RegistryAdd(clients, newc.sock, newc.id)
  /\ nAdds' = nAdds + 1
  /\ \E ts \in ClockReads(now) :
       /\ now' = ts
       /\ bc' = [bc EXCEPT ![Main] = Call(JoinMsg(newc.id, ts))]
  /\ pc' = [pc EXCEPT ![Main] = "bc_lock"]
  /\ UNCHANGED <<running, server_socket, clients_lock, sock, link, newc,
                 client_id, cur, nreads, inbox, rmCount, leaveCount, nRemoves,
                 shutdowns, seq, gotFrom, cvars>>

\* threading.Thread(target=self.handle_client,
\*                  args=(client_socket, client_id)).start()
Spawn ==
  /\ pc[Main] = "spawn"
  /\ pc' = [pc EXCEPT ![Main] = "check", ![newc.sock] = "check"]
  /\ client_id' = [client_id EXCEPT ![newc.sock] = newc.id]
  /\ newc' = NoConn
  /\ UNCHANGED <<running, server_socket, clients, clients_lock, sock, link,
                 cur, bc, now, nreads, inbox, rmCount, leaveCount, nAdds,
                 nRemoves, shutdowns, seq, gotFrom, cvars>>

\* except KeyboardInterrupt ... finally: self.shutdown().  The interrupt can
\* reach the main thread anywhere in the loop; the points modelled are the
\* ones outside broadcast_message's critical section.
KeyboardInterrupt ==
  /\ pc[Main] \in {"check", "accept", "add", "bc_lock", "spawn"}
  /\ pc' = [pc EXCEPT ![Main] = "sd_stop"]
  /\ bc' = [bc EXCEPT ![Main] = NoCall]
  /\ newc' = NoConn
  /\ UNCHANGED <<running, server_socket, clients, clients_lock, sock, link,
                 client_id, cur, now, nreads, inbox, rmCount, leaveCount,
                 nAdds, nRemoves, shutdowns, seq, gotFrom, cvars>>

\* ------------------------------------------------- broadcast_message (t's)
\* Faulty variant of BcastAcquire: the loop starts without taking the lock.
BcastAcquireUnlocked(t) ==
  /\ pc[t] = "bc_lock"
  /\ clients_lock' = t
  /\ bc' = [bc EXCEPT ![t].snap = Snapshot(clients), ![t].todo = Snapshot(clients)]
  /\ pc' = [pc EXCEPT ![t] = "bc_send"]
  /\ UNCHANGED <<running, server_socket, clients, sock, link, newc, client_id,
                 cur, now, nreads, inbox, rmCount, leaveCount, nAdds, nRemoves,
                 shutdowns, seq, gotFrom, cvars>>

\* with self.clients_lock: for client_socket in list(self.clients.keys()):
BcastAcquire(t) ==
  /\ pc[t] = "bc_lock"
  /\ clients_lock = NoThread
  /\ clients_lock' = t
  /\ bc' = [bc EXCEPT ![t].snap = Snapshot(clients), ![t].todo = Snapshot(clients)]
  /\ pc' = [pc EXCEPT ![t] = "bc_send"]
  /\ UNCHANGED <<running, server_socket, clients, sock, link, newc, client_id,
                 cur, now, nreads, inbox, rmCount, leaveCount, nAdds, nRemoves,
                 shutdowns, seq, gotFrom, cvars>>

\* Faulty variant of AfterSend: a failed send ends the loop.
AfterSendAbort(call, h, sent) ==
  [call EXCEPT !.todo = IF sent THEN Tail(call.todo) ELSE <<>>,
               !.att = Append(call.att, h),
               !.ok = IF sent THEN call.ok \cup {h} ELSE call.ok]

\* Faulty variant of AfterSend: the loop serves every handle twice.
AfterSendTwice(call, h, sent) ==
  [call EXCEPT !.todo = IF \E i \in DOMAIN call.att : call.att[i] = h
                        THEN Tail(call.todo) ELSE call.todo,
               !.att = Append(call.att, h),
               !.ok = IF sent THEN call.ok \cup {h} ELSE call.ok]

\* The call's state after one pass of the loop body on handle h:
\*   try: client_socket.send(data)   except: pass
AfterSend(call, h, sent) ==
  [call EXCEPT !.todo = Tail(call.todo),
               !.att = Append(call.att, h),
               !.ok = IF sent THEN call.ok \cup {h} ELSE call.ok]

\* One send of the fan-out
BcastSend(t) ==
  /\ pc[t] = "bc_send"
  /\ bc[t].todo # <<>>
  /\ LET h == Head(bc[t].todo) IN
       \E l \in LinkAt(h) :
         /\ link' = [link EXCEPT ![h] = l]
         /\ inbox' = IF SendOk(h, l)
                     THEN [inbox EXCEPT ![h] = bc[t].msg]
                     ELSE inbox
         /\ bc' = [bc EXCEPT ![t] = AfterSend(bc[t], h, SendOk(h, l))]
         /\ gotFrom' = IF SendOk(h, l) /\ bc[t].msg.type = "broadcast"
                       THEN [gotFrom EXCEPT ![h][t] = Append(@, seq[t])]
                       ELSE gotFrom
  /\ UNCHANGED <<running, server_socket, clients, clients_lock, sock, pc,
                 newc, client_id, cur, now, nreads, rmCount, leaveCount, nAdds,
                 nRemoves, shutdowns, seq, cvars>>

\* Faulty variant of BcastRelease: the call returns with the lock still held.
BcastReleaseKeep(t) ==
  /\ pc[t] = "bc_send"
  /\ bc[t].todo = <<>>
  /\ pc' = [pc EXCEPT ![t] = ReturnPc(bc[t].msg)]
  /\ leaveCount' = IF bc[t].msg.type = "user_leave"
                   THEN [leaveCount EXCEPT ![t] = @ + 1] ELSE leaveCount
  /\ bc' = [bc EXCEPT ![t] = NoCall]
  /\ cur' = IF t \in Sessions THEN [cur EXCEPT ![t] = NoData] ELSE cur
  /\ seq' = IF t \in Sessions THEN [seq EXCEPT ![t] = 0] ELSE seq
  /\ UNCHANGED <<running, server_socket, clients, clients_lock, sock, link,
                 newc, client_id, now, nreads, inbox, rmCount, nAdds, nRemoves,
                 shutdowns, gotFrom, cvars>>

\* The loop is over: the with block releases the lock and the call returns.
BcastRelease(t) ==
  /\ pc[t] = "bc_send"
  /\ bc[t].todo = <<>>
  /\ clients_lock' = NoThread
  /\ pc' = [pc EXCEPT ![t] = ReturnPc(bc[t].msg)]
  /\ leaveCount' = IF bc[t].msg.type = "user_leave"
                   THEN [leaveCount EXCEPT ![t] = @ + 1] ELSE leaveCount
  /\ bc' = [bc EXCEPT ![t] = NoCall]
  /\ cur' = IF t \in Sessions THEN [cur EXCEPT ![t] = NoData] ELSE cur
  /\ seq' = IF t \in Sessions THEN [seq EXCEPT ![t] = 0] ELSE seq
  /\ UNCHANGED <<running, server_socket, clients, sock, link, newc, client_id,
                 now, nreads, inbox, rmCount, nAdds, nRemoves, shutdowns,
                 gotFrom, cvars>>

\* ------------------------------------------------ handle_client (handle c)
\* while self.running:   (a false test falls through to the finally block)
SessCheck(c) ==
  /\ pc[c] = "check"
  /\ pc' = [pc EXCEPT ![c] = IF running THEN "recv" ELSE "fin_rm"]
  /\ cur' = [cur EXCEPT ![c] = NoData]
  /\ UNCHANGED <<running, server_socket, clients, clients_lock, sock, link,
                 newc, client_id, bc, now, nreads, inbox, rmCount, leaveCount,
                 nAdds, nRemoves, shutdowns, seq, gotFrom, cvars>>

\* The position of a read in arrival order, n reads having been made before
ReadNo(n) == n + 1

\* Where the session goes on after reading data
AfterRead(data) ==
  IF Outcome(data) = "raise" THEN "fin_rm"
  ELSE IF Outcome(data) = "sync" THEN "sync"
  ELSE IF Outcome(data) = "chat" THEN "bc_lock"
  ELSE "check"

\* recv returns data; decode, parse_message, dispatch on the type.  A chat is
\* handed to broadcast_message, which stamps its message at once.
RecvData(c) ==
  /\ pc[c] = "recv"
  /\ sock[c] = "open"
  /\ link[c] = "up"
  /\ nreads < MaxReads
  /\ \E data \in Inputs :
       /\ cur' = [cur EXCEPT ![c] = data]
       /\ pc' = [pc EXCEPT ![c] = AfterRead(data)]
       /\ IF Outcome(data) = "chat"
          THEN \E ts \in ClockReads(now) :
                 /\ now' = ts
                 /\ bc' = [bc EXCEPT ![c] = Call(ChatMsg(client_id[c], data, ts))]
                 /\ seq' = [seq EXCEPT ![c] = ReadNo(nreads)]
          ELSE UNCHANGED <<now, bc, seq>>
  /\ nreads' = nreads + 1
  /\ UNCHANGED <<running, server_socket, clients, clients_lock, sock, link,
                 newc, client_id, inbox, rmCount, leaveCount, nAdds, nRemoves,
                 shutdowns, gotFrom, cvars>>

\* recv returns b'' (the peer closed):  if not data: break
RecvEOF(c) ==
  /\ pc[c] = "recv"
  /\ sock[c] = "open"
  /\ link' = [link EXCEPT ![c] = "down"]
  /\ pc' = [pc EXCEPT ![c] = "fin_rm"]
  /\ UNCHANGED <<running, server_socket, clients, clients_lock, sock,
                 newc, client_id, cur, bc, now, nreads, inbox, rmCount,
                 leaveCount, nAdds, nRemoves, shutdowns, seq, gotFrom, cvars>>

\* recv raises (the connection was reset, or shutdown closed the handle):
\* except Exception, then the finally block
RecvError(c) ==
  /\ pc[c] = "recv"
  /\ link' = [link EXCEPT ![c] = IF sock[c] = "closed" THEN @ ELSE "down"]
  /\ pc' = [pc EXCEPT ![c] = "fin_rm"]
  /\ UNCHANGED <<running, server_socket, clients, clients_lock, sock,
                 newc, client_id, cur, bc, now, nreads, inbox, rmCount,
                 leaveCount, nAdds, nRemoves, shutdowns, seq, gotFrom, cvars>>

\* Where handle_client goes on when handle_clock_sync_request returns; the
\* send's exception, if any, was caught inside it.
AfterSync(sent) == "check"

\* handle_clock_sync_request: read the clock, send the response on this handle
ClockSync(c) ==
  /\ pc[c] = "sync"
  /\ \E s \in ClockReads(now), l \in LinkAt(c) :
       /\ now' = s
       /\ link' = [link EXCEPT ![c] = l]
       /\ inbox' = IF SendOk(c, l)
                   THEN [inbox EXCEPT ![c] = SyncResponse(cur[c], s)]
                   ELSE inbox
       /\ pc' = [pc EXCEPT ![c] = AfterSync(SendOk(c, l))]
  /\ cur' = [cur EXCEPT ![c] = NoData]
  /\ UNCHANGED <<running, server_socket, clients, clients_lock, sock,
                 newc, client_id, bc, nreads, rmCount, leaveCount, nAdds,
                 nRemoves, shutdowns, seq, gotFrom, cvars>>

\* finally: with self.clients_lock: if client_socket in self.clients: del ...
\* and then the call broadcast_message(user_leave), which stamps its message.
FinRemove(c) ==
  /\ pc[c] = "fin_rm"
  /\ clients_lock = NoThread
  /\ clients' = RegistryRemove(clients, c)
  /\ rmCount' = [rmCount EXCEPT ![c] = @ + (Len(clients) - Len(clients'))]
  /\ nRemoves' = nRemoves + (IF c \in Handles(clients) THEN 1 ELSE 0)
  /\ \E ts \in ClockReads(now) :
       /\ now' = ts
       /\ bc' = [bc EXCEPT ![c] = Call(LeaveMsg(client_id[c], ts))]
  /\ cur' = [cur EXCEPT ![c] = NoData]
  /\ pc' = [pc EXCEPT ![c] = "bc_lock"]
  /\ UNCHANGED <<running, server_socket, clients_lock, sock, link, newc,
                 client_id, nreads, inbox, leaveCount, nAdds, shutdowns,
                 seq, gotFrom, cvars>>

\* client_socket.close()
FinClose(c) ==
  /\ pc[c] = "fin_close"
  /\ sock' = [sock EXCEPT ![c] = "closed"]
  /\ pc' = [pc EXCEPT ![c] = "done"]
  /\ UNCHANGED <<running, server_socket, clients, clients_lock, link, newc,
                 client_id, cur, bc, now, nreads, inbox, rmCount, leaveCount,
                 nAdds, nRemoves, shutdowns, seq, gotFrom, cvars>>

\* ------------------------------------------------- shutdown(), called by t
\* Faulty variant of StopRunning: the flag is flipped.
ToggleRunning(r) == ~r

\* self.running = False
StopRunning(r) == FALSE

\* for client_socket in list(self.clients.keys()): client_socket.close()
\* (closing a closed socket does nothing)
CloseAll(socks, reg) ==
  [c \in Conns |-> IF c \in Handles(reg) THEN "closed" ELSE socks[c]]

\* if self.server_socket: self.server_socket.close()
CloseListener(ls) == IF ls = "none" THEN "none" ELSE "closed"

ShutdownStop(t) ==
  /\ pc[t] = "sd_stop"
  /\ running' = StopRunning(running)
  /\ pc' = [pc EXCEPT ![t] = "sd_close"]
  /\ UNCHANGED <<server_socket, clients, clients_lock, sock, link, newc,
                 client_id, cur, bc, now, nreads, inbox, rmCount, leaveCount,
                 nAdds, nRemoves, shutdowns, seq, gotFrom, cvars>>

ShutdownClose(t) ==
  /\ pc[t] = "sd_close"
  /\ clients_lock = NoThread
  /\ sock' = CloseAll(sock, clients)
  /\ pc' = [pc EXCEPT ![t] = "sd_sock"]
  /\ UNCHANGED <<running, server_socket, clients, clients_lock, link, newc,
                 client_id, cur, bc, now, nreads, inbox, rmCount, leaveCount,
                 nAdds, nRemoves, shutdowns, seq, gotFrom, cvars>>

ShutdownSock(t) ==
  /\ pc[t] = "sd_sock"
  /\ server_socket' = CloseListener(server_socket)
  /\ pc' = [pc EXCEPT ![t] = "done"]
  /\ shutdowns' = shutdowns + 1
  /\ UNCHANGED <<running, clients, clients_lock, sock, link, newc, client_id,
                 cur, bc, now, nreads, inbox, rmCount, leaveCount, nAdds,
                 nRemoves, seq, gotFrom, cvars>>

\* Some other thread of the program calls server.shutdown()
ExtCall ==
  /\ pc[Ext] = "idle"
  /\ pc' = [pc EXCEPT ![Ext] = "sd_stop"]
  /\ UNCHANGED <<running, server_socket, clients, clients_lock, sock, link,
                 newc, client_id, cur, bc, now, nreads, inbox, rmCount,
                 leaveCount, nAdds, nRemoves, shutdowns, seq, gotFrom, cvars>>

\* ------------------------------------------- the clock estimator (utils.py)
\* Python's x / 2 on an integer x gives the float x/2, exactly at these
\* magnitudes (below 2^52), so a result can end in .5.  Such values are kept as
\* whole numbers of half milliseconds: Halves(i) is the integer i and
\* TrueDiv2(i) is i / 2, both counted in halves.
Halves(i) == i + i

\* Faulty variant of TrueDiv2: floor division, x // 2.
FloorDiv2(i) == Halves(i \div 2)

\* x / 2
TrueDiv2(i) == i

\* A value counted in halves is a whole number of milliseconds
IsWhole(h) == h % 2 = 0

\* Faulty variant of calculate_offset: the transmission delay is left out.
calculate_offset_undelayed(client_time_before, server_time_response, client_time_after) ==
  LET rtt == client_time_after - client_time_before
  IN [offset |-> Halves(server_time_response) - Halves(client_time_after),
      confidence |-> TrueDiv2(rtt),
      rtt |-> rtt]

\* CristianClockSync.calculate_offset: offset and confidence in halves, rtt in
\* milliseconds
calculate_offset(client_time_before, server_time_response, client_time_after) ==
  LET rtt == client_time_after - client_time_before
      one_way_delay == TrueDiv2(rtt)
      adjusted_server_time == Halves(server_time_response) + one_way_delay
      offset == adjusted_server_time - Halves(client_time_after)
      confidence == TrueDiv2(rtt)
  IN [offset |-> offset, confidence |-> confidence, rtt |-> rtt]

\* ------------------------------------------------ the client (src/client.py)
\* What receive_messages does with one non-empty recv result:
\*   "raise"    an exception leaves the loop (.decode fails, or message.get
\*              is called on something that is no dict)
\*   "continue" parse_message gave None, or the parsed value is falsy
\*   "show"     broadcast, user_join, user_leave: a line in the chat display
\*   "sync"     clock_sync_response;   "ignore"  any other type
ClientOutcome(data) ==
  IF data.kind = "bytes" THEN "raise"
  ELSE IF data.kind = "text" THEN "continue"
  ELSE IF data.kind = "falsy" THEN "continue"
  ELSE IF data.kind = "nonrecord" THEN "raise"
  ELSE IF data.type \in {"broadcast", "user_join", "user_leave"} THEN "show"
  ELSE IF data.type = "clock_sync_response" THEN "sync"
  ELSE "ignore"

\* _connect: socket(), connect(), then receive_messages()
Connect ==
  /\ cpc = "connect"
  /\ csocket' = "connected"
  /\ cpc' = "check"
  /\ UNCHANGED <<crunning, cmsg, wire, csent, clock_offset, sync_confidence,
                 local_time_offset, estimate, ctime, skew, delay, svars>>

\* _connect: connect() raises (no server there); receive_messages never runs
ConnectFail ==
  /\ cpc = "connect"
  /\ csocket' = "unconnected"
  /\ cpc' = "done"
  /\ UNCHANGED <<crunning, cmsg, wire, csent, clock_offset, sync_confidence,
                 local_time_offset, estimate, ctime, skew, delay, svars>>

\* disconnect(): self.running = False; self.socket.close()
Disconnected(s) == IF s = "none" THEN "none" ELSE "closed"

\* while self.running:   (a false test falls through to finally: disconnect())
ClientCheck ==
  /\ cpc = "check"
  /\ cmsg' = NoData
  /\ IF crunning
     THEN cpc' = "recv" /\ UNCHANGED <<crunning, csocket>>
     ELSE cpc' = "done" /\ crunning' = FALSE /\ csocket' = Disconnected(csocket)
  /\ UNCHANGED <<wire, csent, clock_offset, sync_confidence,
                 local_time_offset, estimate, ctime, skew, delay, svars>>

\* recv returns data that is no clock_sync_response: decode, parse_message,
\* dispatch on the type.  An exception ends in finally: disconnect().
ClientRecv ==
  /\ cpc = "recv"
  /\ csocket = "connected"
  /\ \E data \in ClientInputs :
       /\ cmsg' = data
       /\ IF ClientOutcome(data) = "raise"
          THEN /\ cpc' = "done"
               /\ crunning' = FALSE
               /\ csocket' = Disconnected(csocket)
          ELSE /\ cpc' = "check"
               /\ UNCHANGED <<crunning, csocket>>
  /\ UNCHANGED <<wire, csent, clock_offset, sync_confidence,
                 local_time_offset, estimate, ctime, skew, delay, svars>>

\* recv returns '' (the server closed) or raises (reset, or on_closing closed
\* the socket): the loop ends in finally: disconnect()
ClientRecvEnd ==
  /\ cpc = "recv"
  /\ cpc' = "done"
  /\ crunning' = FALSE
  /\ csocket' = Disconnected(csocket)
  /\ UNCHANGED <<cmsg, wire, csent, clock_offset, sync_confidence,
                 local_time_offset, estimate, ctime, skew, delay, svars>>

\* on_closing(): the window is closed
OnClosing ==
  /\ crunning
  /\ crunning' = FALSE
  /\ csocket' = Disconnected(csocket)
  /\ UNCHANGED <<cpc, cmsg, wire, csent, clock_offset, sync_confidence,
                 local_time_offset, estimate, ctime, skew, delay, svars>>

\* request_clock_sync(), from the Sync button or the display timer while the
\* window is open: read the clock, send the request.  (On a socket that is not
\* connected the send raises, which is caught: nothing changes.)  One exchange
\* is in flight at a time.
RequestClockSync ==
  /\ crunning
  /\ csocket = "connected"
  /\ csent < MaxSyncs
  /\ wire = NoMsg
  /\ wire' = SyncIn(ctime)
  /\ csent' = csent + 1
  /\ UNCHANGED <<crunning, csocket, cpc, cmsg, clock_offset, sync_confidence,
                 local_time_offset, estimate, ctime, skew, delay, svars>>

\* The request reaches the server after delay.out; the server answers as
\* handle_clock_sync_request does, with its own clock's reading.
ServerAnswers ==
  /\ wire.type = "clock_sync_request"
  /\ ctime' = ctime + delay.out
  /\ wire' = SyncResponse(wire, ctime' + skew)
  /\ UNCHANGED <<crunning, csocket, cpc, cmsg, csent, clock_offset,
                 sync_confidence, local_time_offset, estimate, skew, delay,
                 svars>>

\* The response reaches the client after delay.back: recv returns it, and
\* receive_messages calls handle_clock_sync_response, which reads the clock,
\* calls calculate_offset, stores the result and corrects the drift simulator.
ClientRecvSync ==
  /\ cpc = "recv"
  /\ csocket = "connected"
  /\ wire.type = "clock_sync_response"
  /\ ctime' = ctime + delay.back
  /\ LET client_time_after == ctime'
         client_time_before == wire.client_time_before
         server_time == wire.server_time
         r == calculate_offset(client_time_before, server_time,
                               client_time_after)
     IN /\ clock_offset' = r.offset
        /\ sync_confidence' = r.confidence
        /\ local_time_offset' = local_time_offset + r.offset
        /\ estimate' = [args |-> <<client_time_before, server_time,
                                   client_time_after>>,
                        offset |-> r.offset,
                        confidence |-> r.confidence,
                        rtt |-> r.rtt]
  /\ cmsg' = [kind |-> "record", type |-> wire.type,
               server_time |-> wire.server_time,
               client_time_before |-> wire.client_time_before]
  /\ wire' = NoMsg
  /\ cpc' = "check"
  /\ UNCHANGED <<crunning, csocket, csent, skew, delay, svars>>

\* ---------------------------------------------------------- specifications
\* What the server does while no client sends it anything: connections come
\* and go, and the operator may interrupt the main thread.
Quiet ==
  \/ Start
  \/ LoopCheck
  \/ Accept
  \/ AcceptFail
  \/ Register
  \/ Spawn
  \/ KeyboardInterrupt
  \/ \E t \in {Main} \cup Sessions : BcastAcquire(t)
  \/ \E t \in {Main} \cup Sessions : BcastSend(t)
  \/ \E t \in {Main} \cup Sessions : BcastRelease(t)
  \/ \E c \in Sessions : SessCheck(c)
  \/ \E c \in Sessions : RecvEOF(c)
  \/ \E c \in Sessions : RecvError(c)
  \/ \E c \in Sessions : FinRemove(c)
  \/ \E c \in Sessions : FinClose(c)
  \/ ShutdownStop(Main)
  \/ ShutdownClose(Main)
  \/ ShutdownSock(Main)

\* The server as src/server.py runs it: clients send data, and shutdown() is
\* called by start() only.
Next ==
  \/ Quiet
  \/ \E c \in Sessions : RecvData(c)
  \/ \E c \in Sessions : ClockSync(c)

Spec == Init /\ [][Next]_vars

\* The threads of the server are scheduled: a send in the loop of
\* broadcast_message returns or raises, the with block is left, and a thread
\* blocked at `with self.clients_lock` enters it if the lock stays free.
LockFairness ==
  /\ \A t \in {Main} \cup Sessions :
       /\ WF_vars(BcastAcquire(t))
       /\ WF_vars(BcastSend(t))
       /\ WF_vars(BcastRelease(t))
  /\ WF_vars(Register)
  /\ \A c \in Sessions : WF_vars(FinRemove(c))
  /\ WF_vars(ShutdownClose(Main))

SpecFair == Init /\ [][Next]_vars /\ LockFairness

\* The server inside a program one other thread of which calls shutdown()
\* too, at a moment of its choosing (the clients send nothing meanwhile).
NextExt ==
  \/ Quiet
  \/ ExtCall
  \/ ShutdownStop(Ext)
  \/ ShutdownClose(Ext)
  \/ ShutdownSock(Ext)

SpecExt == Init /\ [][NextExt]_vars

\* What the client's receiving thread does
ClientLoop ==
  \/ Connect
  \/ ConnectFail
  \/ ClientCheck
  \/ ClientRecv
  \/ ClientRecvEnd

\* The client program against a server that answers its clock-sync requests
\* and may send it anything else
NextClient ==
  \/ ClientLoop
  \/ OnClosing
  \/ RequestClockSync
  \/ ServerAnswers
  \/ ClientRecvSync

SpecClient == InitAnywhere /\ [][NextClient]_vars

\* The server in service: everything it does while the operator leaves it
\* running (no KeyboardInterrupt, hence no shutdown).
Serving ==
  \/ Start
  \/ LoopCheck
  \/ Accept
  \/ AcceptFail
  \/ Register
  \/ Spawn
  \/ \E t \in {Main} \cup Sessions : BcastAcquire(t)
  \/ \E t \in {Main} \cup Sessions : BcastSend(t)
  \/ \E t \in {Main} \cup Sessions : BcastRelease(t)
  \/ \E c \in Sessions : SessCheck(c)
  \/ \E c \in Sessions : RecvData(c)
  \/ \E c \in Sessions : RecvEOF(c)
  \/ \E c \in Sessions : RecvError(c)
  \/ \E c \in Sessions : ClockSync(c)
  \/ \E c \in Sessions : FinRemove(c)
  \/ \E c \in Sessions : FinClose(c)

\* The server in service and a client program's receiving thread side by
\* side, each reading whatever its peer may send it.
NextPeers ==
  \/ Serving
  \/ ClientLoop

SpecPeers == Init /\ [][NextPeers]_vars

\* ------------------------------------------------------------------ claims
InLoop(c) == pc[c] \in {"check", "recv", "sync"}
               \/ (pc[c] \in {"bc_lock", "bc_send"} /\ bc[c].msg.type = "broadcast")
Exited(c) == pc[c] \in {"fin_close", "done"}

\* C1: whichever way a session's loop ends, its connection is removed from
\* the registry exactly once and exactly one user_leave broadcast is made for
\* it: never two of either, none while the loop runs, and one of each once
\* the finally block has run.
C1_ExactlyOneDeregistration ==
  \A c \in Conns :
    /\ rmCount[c] <= 1
    /\ leaveCount[c] <= 1
    /\ InLoop(c) => rmCount[c] = 0 /\ leaveCount[c] = 0 /\ c \in Handles(clients)
    /\ Exited(c) => rmCount[c] = 1 /\ leaveCount[c] = 1 /\ c \notin Handles(clients)

C1_Witness ==
  /\ \A c \in Conns : pc[c] = "done" /\ rmCount[c] = 1 /\ leaveCount[c] = 1
  /\ running

\* C2: a read that is no well-formed message record (undecodable bytes, text
\* that is not JSON, JSON that is no object) is dropped: the session stays in
\* its loop, the connection open and registered.
C2_MalformedInputIsDropped ==
  [][\A c \in Conns :
       (pc[c] = "recv" /\ cur'[c] # cur[c] /\ cur'[c] \in Malformed)
         => /\ pc'[c] = "check"
            /\ sock'[c] = "open"
            /\ c \in Handles(clients')]_vars

\* C3: broadcast_message attempts a send on every handle of its snapshot
\* whichever sends fail, delivers on each handle whose send succeeds, and
\* returns to its caller without raising.
C3_BroadcastReachesAll ==
  [][\A t \in Threads :
       /\ (pc[t] = "bc_send" /\ bc'[t] # bc[t] /\ pc'[t] = "bc_send")
            => LET h == Head(bc[t].todo) IN
                 /\ bc'[t].att \o bc'[t].todo = bc[t].snap
                 /\ Len(bc'[t].att) = Len(bc[t].att) + 1
                 /\ (sock[h] = "open" /\ link'[h] = "up")
                      => inbox'[h] = bc[t].msg /\ h \in bc'[t].ok
       /\ (pc[t] = "bc_send" /\ pc'[t] # "bc_send")
            => /\ bc[t].att = bc[t].snap
               /\ pc'[t] = ReturnPc(bc[t].msg)
               /\ clients_lock' = NoThread]_vars

C3_Witness ==
  \E t \in Threads :
    /\ pc[t] = "bc_send"
    /\ bc[t].todo = <<>>
    /\ Len(bc[t].snap) = 2
    /\ bc[t].att = bc[t].snap
    /\ bc[t].att[1] \notin bc[t].ok
    /\ bc[t].att[2] \in bc[t].ok

\* C4: a chat read by a session is relayed as one broadcast message carrying
\* the session's assigned id, the chat's content and client_timestamp and a
\* server_timestamp, sent once to every connection registered when the
\* fan-out starts, the sender's own among them.
C4_ChatIsRelayedToAll ==
  \A c \in Conns :
    (pc[c] \in {"bc_lock", "bc_send"} /\ bc[c].msg.type = "broadcast")
      => /\ cur[c] \in {ChatIn(m, t) : m \in Contents, t \in ClientStamps}
         /\ bc[c].msg = [type |-> "broadcast",
                         user_id |-> client_id[c],
                         message |-> cur[c].content,
                         client_timestamp |-> cur[c].client_timestamp,
                         server_timestamp |-> bc[c].msg.server_timestamp]
         /\ bc[c].msg.server_timestamp \in 0..MaxClock
         /\ \E i \in DOMAIN clients :
              clients[i] = [sock |-> c, id |-> bc[c].msg.user_id]
         /\ pc[c] = "bc_send"
              => /\ bc[c].snap = Snapshot(clients)
                 /\ \E i \in DOMAIN bc[c].snap : bc[c].snap[i] = c
                 /\ bc[c].att \o bc[c].todo = bc[c].snap
                 /\ \A i, j \in DOMAIN bc[c].snap :
                      bc[c].snap[i] = bc[c].snap[j] => i = j

C4_Witness ==
  \E c \in Conns :
    /\ pc[c] = "bc_send"
    /\ bc[c].msg.type = "broadcast"
    /\ bc[c].todo = <<>>
    /\ Len(bc[c].att) = 2
    /\ bc[c].ok = Conns

\* C5: a clock_sync_request with client_time_before = x is answered by one
\* clock_sync_response on the same connection, with client_time_before = x and
\* server_time = the clock read while handling it; nothing is sent on any
\* other connection and the registry is unchanged.
C5_SyncAnsweredOnSameConnection ==
  [][\A c \in Conns :
       (pc[c] = "sync" /\ pc'[c] # "sync")
         => /\ clients' = clients
            /\ bc' = bc
            /\ \A d \in Conns \ {c} : inbox'[d] = inbox[d]
            /\ inbox'[c] \in {inbox[c],
                              [type |-> "clock_sync_response",
                               server_time |-> now',
                               client_time_before |-> cur[c].client_time_before]}
            /\ (sock[c] = "open" /\ link'[c] = "up")
                 => inbox'[c] = [type |-> "clock_sync_response",
                                 server_time |-> now',
                                 client_time_before |-> cur[c].client_time_before]]_vars

C5_Witness ==
  \E c \in Conns :
    /\ inbox[c].type = "clock_sync_response"
    /\ inbox[c].client_time_before \in SyncStamps
    /\ inbox[c].server_time = 1
    /\ Len(clients) = 2
    /\ InLoop(c)

\* C6: broadcast_message does not hold the registry lock while it sends: no
\* thread has a send of its fan-out ahead of it with the lock in its hands.
C6_NoSendUnderLock ==
  \A t \in Threads :
    (pc[t] = "bc_send" /\ bc[t].todo # <<>>) => clients_lock # t

\* C7: the registry's size is the number of completed adds minus the number of
\* completed removes, and no handle that has been removed is in the handle
\* set a broadcast iterates over.
C7_RegistryCountsAndSnapshots ==
  /\ Len(clients) = nAdds - nRemoves
  /\ Cardinality(Handles(clients)) = Len(clients)
  /\ \A t \in Threads :
       pc[t] = "bc_send"
         => \A i \in DOMAIN bc[t].snap : rmCount[bc[t].snap[i]] = 0

C7_Witness ==
  /\ nAdds = 2
  /\ nRemoves = 1
  /\ \E t \in Threads : pc[t] = "bc_send" /\ Len(bc[t].snap) = 1 /\ bc[t].todo # <<>>

\* A send on c's own connection made by c's session fails in this step:
\* its clock_sync_response, or its own broadcast's send to itself.
OwnWriteFails(c) ==
  \/ /\ pc[c] = "sync"
     /\ pc'[c] # "sync"
     /\ ~(sock[c] = "open" /\ link'[c] = "up")
  \/ /\ pc[c] = "bc_send"
     /\ bc[c].todo # <<>>
     /\ Head(bc[c].todo) = c
     /\ bc'[c] # bc[c]
     /\ c \notin bc'[c].ok

\* A read on c's connection fails in this step (recv raises), or returns b''.
ReadFails(c) == pc[c] = "recv" /\ pc'[c] # "recv" /\ nreads' = nreads

OthersUntouched(c) ==
  /\ \A t \in Threads \ {c} : pc'[t] = pc[t]
  /\ \A i \in DOMAIN clients : clients[i].sock # c => clients[i] \in
                                 {clients'[j] : j \in DOMAIN clients'}

ShutdownEffect(st) ==
  [running |-> StopRunning(st.running),
   sock |-> CloseAll(st.sock, clients),
   server_socket |-> CloseListener(st.server_socket)]

Touched == [running |-> running, sock |-> sock, server_socket |-> server_socket]

\* C9: shutdown() stops the server running, closes every handle in the
\* registry and closes the listening socket; a second call raises nothing and
\* leaves the state as a first call left it.
C9_ShutdownIdempotent ==
  [][/\ \A t \in {Main, Ext} :
          /\ (pc[t] = "sd_stop" /\ pc'[t] # "sd_stop")
               => pc'[t] = "sd_close" /\ running' = FALSE
          /\ (pc[t] = "sd_close" /\ pc'[t] # "sd_close")
               => /\ pc'[t] = "sd_sock"
                  /\ clients' = clients
                  /\ \A h \in Handles(clients) : sock'[h] = "closed"
                  /\ \A h \in Conns \ Handles(clients) : sock'[h] = sock[h]
          /\ (pc[t] = "sd_sock" /\ pc'[t] # "sd_sock")
               => pc'[t] = "done" /\ server_socket' # "open"
          /\ (pc[t] \in {"sd_stop", "sd_close", "sd_sock"} /\ pc'[t] # pc[t]
                /\ Touched = ShutdownEffect(Touched))
               => Touched' = Touched
     /\ ShutdownEffect(ShutdownEffect(Touched')) = ShutdownEffect(Touched')]_vars

C9_Witness ==
  /\ shutdowns = 2
  /\ pc[Main] = "done"
  /\ pc[Ext] = "done"
  /\ Len(clients) = 2
  /\ ~running
  /\ server_socket = "closed"
  /\ \A c \in Conns : sock[c] = "closed"

\* Every thread of the server has run to its end.
Terminated == pc[Main] = "done" /\ \A c \in Conns : pc[c] \in {"none", "done"}

\* C10: after shutdown every session handler leaves its loop and deregisters,
\* so the registry ends empty and every accepted handle closed.
C10_ShutdownDrainsRegistry ==
  Terminated => clients = <<>> /\ \A c \in Conns : sock[c] # "open"

\* The arguments of the last calculate_offset call
T0 == estimate.args[1]
S == estimate.args[2]
T1 == estimate.args[3]

\* C11: for integer millisecond timestamps t0, s, t1 with t1 >= t0,
\* calculate_offset(t0, s, t1) returns rtt = t1 - t0, confidence = rtt/2 and
\* offset = s + rtt/2 - t1 exactly, that is 2*confidence = rtt and
\* 2*offset = 2*s - t0 - t1, odd rtt included; calculate_offset(5000, 6000,
\* 5200) gives rtt 200, offset 900 and confidence 100.
C11_EstimatorIsExact ==
  (estimate # NoEstimate /\ T1 >= T0)
    => /\ estimate.rtt = T1 - T0
       /\ estimate.confidence = estimate.rtt
       /\ estimate.offset = 2 * S - T0 - T1
       /\ estimate.args = <<5000, 6000, 5200>>
            => /\ estimate.rtt = 200
               /\ estimate.offset = 2 * 900
               /\ estimate.confidence = 2 * 100

C11_Witness ==
  /\ estimate # NoEstimate
  /\ estimate.args = <<5000, 6000, 5200>>
  /\ estimate.rtt = 200
  /\ clock_offset = 1800
  /\ sync_confidence = 200

\* The server clock's true reading when the client's clock shows t
ServerClockAt(t) == t + skew

\* C12 as stated: when the delay is the same in both directions, s + offset
\* is the server clock's true reading at the instant the client receives the
\* response.
C12_ServerStampPlusOffset ==
  (estimate # NoEstimate /\ delay.out = delay.back)
    => Halves(S) + estimate.offset = Halves(ServerClockAt(T1))

\* C12 as amended: when the delay is the same in both directions, t1 + offset
\* (the client's clock at the receipt, corrected by the offset) is the server
\* clock's true reading at that instant, whatever the skew and the delay.
C12_ReceiptTimePlusOffset ==
  (estimate # NoEstimate /\ delay.out = delay.back)
    => /\ Halves(T1) + estimate.offset = Halves(ServerClockAt(T1))
       /\ clock_offset = estimate.offset

C12_Witness ==
  /\ estimate # NoEstimate
  /\ delay.out = delay.back
  /\ delay.out = 100
  /\ skew = 0 - 1
  /\ Halves(ctime) + clock_offset = Halves(ServerClockAt(ctime))
  /\ Halves(S) + clock_offset # Halves(ServerClockAt(ctime))

\* A record of a type the server does not dispatch on
ServerIgnores(data) ==
  data.kind = "record" /\ data.type \notin {"clock_sync_request", "chat"}

\* A record of a type the client does not dispatch on
ClientIgnores(data) ==
  /\ data.kind = "record"
  /\ data.type \notin {"broadcast", "user_join", "user_leave",
                       "clock_sync_response"}

\* C13: a well-formed message of a type the receiver does not dispatch on is
\* ignored.  The server's session sends nothing, starts no broadcast, leaves
\* the registry as it is and goes back to the test of its loop with the
\* connection open and registered; the client sends nothing, leaves its clock
\* offset (and the rest of its synchronisation state) as it is and goes back
\* to the test of its loop with its socket connected.
C13_UnknownTypeIsIgnored ==
  [][/\ \A c \in Conns :
          (pc[c] = "recv" /\ cur'[c] # cur[c] /\ ServerIgnores(cur'[c]))
            => /\ inbox' = inbox
               /\ bc' = bc
               /\ clients' = clients
               /\ c \in Handles(clients)
               /\ sock' = sock
               /\ sock[c] = "open"
               /\ running' = running
               /\ pc'[c] = "check"
               /\ \A t \in Threads \ {c} : pc'[t] = pc[t]
     /\ (cpc = "recv" /\ cmsg' # cmsg /\ ClientIgnores(cmsg'))
          => /\ csent' = csent
             /\ wire' = wire
             /\ clock_offset' = clock_offset
             /\ sync_confidence' = sync_confidence
             /\ local_time_offset' = local_time_offset
             /\ crunning' = crunning
             /\ csocket' = csocket
             /\ csocket = "connected"
             /\ cpc' = "check"]_vars

C13_Witness ==
  /\ \E c \in Conns :
       /\ ServerIgnores(cur[c])
       /\ pc[c] = "check"
       /\ sock[c] = "open"
       /\ c \in Handles(clients)
       /\ Len(clients) = 2
       /\ running
  /\ ClientIgnores(cmsg)
  /\ cpc = "check"
  /\ csocket = "connected"
  /\ crunning

\* C14: arrival order is preserved per connection.  The broadcasts of the
\* chats read from one connection reach each recipient in the order in which
\* the chats were read, each once, whatever other broadcasts (joins, leaves,
\* other sessions' chats) are interleaved with them.
C14_ArrivalOrderPreserved ==
  \A r, c \in Conns :
    \A i, j \in DOMAIN gotFrom[r][c] :
      i < j => gotFrom[r][c][i] < gotFrom[r][c][j]

C14_Witness ==
  \E r, c \in Conns :
    /\ r # c
    /\ gotFrom[r][c] = <<1, 2>>
    /\ gotFrom[c][c] = <<1, 2>>
    /\ inbox[r].type = "user_leave"

\* C15: the id of a newly accepted connection is "Client_" followed by the
\* registry's size at add time plus one: the size the id was built from is the
\* number of entries in the registry just before the new entry is inserted,
\* however the sessions' removals are interleaved.
C15_IdFromSizeAtAdd ==
  [][(pc[Main] = "add" /\ pc'[Main] # "add" /\ clients' # clients)
       => newc.id = <<"Client_", Len(clients) + 1>>]_vars

\* The handles a sequence of handles holds
Among(hs) == {hs[i] : i \in DOMAIN hs}

\* C16: for each accepted connection the accept loop adds it to the registry,
\* then broadcasts its user_join, then spawns its session handler.  The join's
\* fan-out includes the new connection itself and delivers to it if its peer
\* is there; until the join broadcast has returned the connection has no
\* handler, so nothing read from it is dispatched and no user_leave is
\* broadcast for it.
C16_AddThenJoinThenSpawn ==
  [][/\ (pc[Main] = "add" /\ pc'[Main] = "bc_lock")
          => /\ newc.sock \notin Handles(clients)
             /\ newc.sock \in Handles(clients')
             /\ bc'[Main].msg.type = "user_join"
             /\ bc'[Main].msg.user_id = newc.id
     /\ (pc[Main] = "bc_lock" /\ pc'[Main] = "bc_send")
          => /\ bc[Main].msg.type = "user_join"
             /\ newc.sock \in Among(bc'[Main].snap)
     /\ (pc[Main] = "bc_send" /\ pc'[Main] = "bc_send"
           /\ bc'[Main] # bc[Main] /\ Head(bc[Main].todo) = newc.sock
           /\ link'[newc.sock] = "up")
          => inbox'[newc.sock] = bc[Main].msg
     /\ (pc[Main] # "spawn" /\ pc'[Main] = "spawn")
          => /\ pc[Main] = "bc_send"
             /\ bc[Main].msg.type = "user_join"
             /\ bc[Main].todo = <<>>
             /\ newc.sock \in Among(bc[Main].att)
             /\ newc.sock \in Handles(clients)
     /\ \A c \in Conns :
          /\ (pc[c] = "none" /\ pc'[c] # "none")
               => pc[Main] = "spawn" /\ newc.sock = c /\ pc'[c] = "check"
          /\ pc[c] = "none"
               => /\ cur[c] = NoData
                  /\ bc[c] = NoCall
                  /\ rmCount[c] = 0
                  /\ leaveCount[c] = 0]_vars

C16_Witness ==
  /\ pc[Main] = "spawn"
  /\ newc.sock = 2
  /\ pc[2] = "none"
  /\ inbox[2].type = "user_join"
  /\ inbox[2].user_id = newc.id
  /\ inbox[1] = inbox[2]
  /\ InLoop(1)
  /\ clients = <<[sock |-> 1, id |-> client_id[1]], newc>>

\* C17: every handle in the registry is open on the server's side (neither a
\* session's exit nor shutdown closes a handle and leaves its entry), and a
\* handle has at most one session handler, started after it was accepted.
C17_RegisteredHandlesAreOpen ==
  /\ \A h \in Handles(clients) : sock[h] = "open"
  /\ \A c \in Conns : pc[c] # "none" => sock[c] # "unaccepted"

\* C18: ids can collide after clients leave and rejoin.  The id given to a
\* new connection is "Client_" and the registry's size at accept time plus
\* one, whatever ids were given before: it does not depend on how many
\* connections were accepted, so a connection accepted after another has left
\* gets an id that was already given.
C18_IdIsSizePlusOne ==
  [][(pc[Main] = "accept" /\ pc'[Main] = "add")
       => /\ newc'.id = <<"Client_", Len(clients) + 1>>
          /\ sock[newc'.sock] = "unaccepted"
          /\ \A c \in Conns :
               (pc[c] # "none" /\ Len(clients) + 1 = client_id[c][2])
                 => newc'.id = client_id[c] /\ newc'.sock # c]_vars

C18_Witness ==
  /\ client_id[1] = <<"Client_", 1>>
  /\ client_id[2] = <<"Client_", 1>>
  /\ pc[1] = "done"
  /\ InLoop(2)
  /\ clients = <<[sock |-> 2, id |-> <<"Client_", 1>>]>>
  /\ inbox[2].type = "user_join"
  /\ inbox[2].user_id = client_id[1]

\* C19: for integer inputs with t1 >= t0 the estimator's round trip is a
\* non-negative integer, its confidence a non-negative integer and its offset
\* an integer, odd t1 - t0 included.
C19_ResultsAreIntegers ==
  (estimate # NoEstimate /\ T1 >= T0)
    => /\ estimate.rtt >= 0
       /\ IsWhole(estimate.confidence)
       /\ estimate.confidence >= 0
       /\ IsWhole(estimate.offset)

\* A message that went through broadcast_message
Stamped(m) == m.type \in {"broadcast", "user_join", "user_leave"}

\* C20: each recipient receives the broadcast, user_join and user_leave
\* messages in non-decreasing order of server_timestamp, concurrent
\* broadcasts included.
C20_TimestampsInOrder ==
  [][\A r \in Conns :
       (inbox'[r] # inbox[r] /\ Stamped(inbox[r]) /\ Stamped(inbox'[r]))
         => inbox'[r].server_timestamp >= inbox[r].server_timestamp]_vars

\* ---------------------------------------------------------------- C21
\* A call of broadcast_message is in its loop
FanningOut(t) == pc[t] = "bc_send"

\* A call of broadcast_message has sent to some handle and not returned
MidFanOut(t) == bc[t].att # <<>>

\* C21: the fan-outs of two broadcast_message calls never interleave, so any
\* two calls reach every connection that receives both in the same order.
\* Every send of a call t is made while t holds clients_lock, t holds it from
\* its first send to its return, and at that step every other call has
\* either returned or not sent anything yet (and sends nothing in the step).
C21_FanOutsNeverInterleave ==
  [][\A t \in Threads :
       /\ bc'[t].att # bc[t].att /\ MidFanOut(t)'
            => /\ FanningOut(t) /\ clients_lock = t /\ clients_lock' = t
               /\ \A u \in Threads \ {t} :
                    /\ ~FanningOut(u) /\ ~MidFanOut(u)
                    /\ bc'[u].att = bc[u].att
       /\ MidFanOut(t) => clients_lock = t]_vars

\* A fan-out over two handles is half done while another call waits.
C21_Witness ==
  \E t \in Threads : \E u \in Threads \ {t} :
    /\ FanningOut(t) /\ MidFanOut(t) /\ bc[t].ok # {} /\ bc[t].todo # <<>>
    /\ pc[u] = "bc_lock" /\ Len(clients) >= 1

\* ---------------------------------------------------------------- C22
\* The positions at which a thread is about to enter `with self.clients_lock`
LockPcs == {"add", "bc_lock", "fin_rm", "sd_close"}

\* Thread t has requested the lock and not got it yet
Requesting(t) == pc[t] \in LockPcs

\* No thread asks for the lock it holds, and the lock is held only by a thread
\* inside the loop of broadcast_message (the other blocks are single steps).
LockHeldInside ==
  /\ \A t \in Threads : Requesting(t) => clients_lock # t
  /\ clients_lock # NoThread =>
       /\ clients_lock \in Threads
       /\ pc[clients_lock] = "bc_send"

\* Some thread waits for the lock: it is free, or its holder can go on.
NoLockDeadlock ==
  \A t \in Threads :
    Requesting(t) =>
      \/ clients_lock = NoThread
      \/ \E h \in Threads :
           /\ clients_lock = h
           /\ ENABLED (BcastSend(h) \/ BcastRelease(h))

\* C22: no thread requests clients_lock while holding it; every critical
\* section releases it, a failed send inside it included; so, sends returning
\* or raising, a thread waiting for the lock gets it and no state is a
\* deadlock.  A thread at a with statement leaves it by entering the block;
\* the main thread alone can also be taken out of the wait by Ctrl-C, and
\* then asks again in shutdown().
C22_LockAlwaysReleasedAndGranted ==
  /\ [][/\ LockHeldInside /\ LockHeldInside'
        /\ NoLockDeadlock /\ NoLockDeadlock'
        /\ \A t \in Threads :
             /\ pc[t] = "bc_send" /\ pc'[t] # "bc_send"
                  => clients_lock = t /\ clients_lock' = NoThread
             /\ pc[t] = "bc_send" /\ pc'[t] = "bc_send"
                  => clients_lock = t /\ clients_lock' = t]_vars
  /\ \A t \in {Main} \cup Sessions : []<>(~Requesting(t))

\* A thread waits for the lock while its holder has had a send fail and has
\* handles left to serve.
C22_Witness ==
  \E t \in Threads : \E u \in Threads \ {t} :
    /\ clients_lock = t /\ Requesting(u)
    /\ bc[t].todo # <<>>
    /\ \E i \in DOMAIN bc[t].att : bc[t].att[i] \notin bc[t].ok

\* ---------------------------------------------------------------- C23
\* The session of handle c has left the with block of its finally clause
\* (lines 106-108): it is in, or past, its user_leave broadcast.
PastRemoval(c) ==
  \/ Exited(c)
  \/ pc[c] \in {"bc_lock", "bc_send"} /\ bc[c].msg.type = "user_leave"

\* C23: once a session has removed its connection from the registry no
\* broadcast sends on that handle: the handle a fan-out sends on is still
\* registered, its session has not passed the removal (so has not closed
\* it), and a user_leave is never sent on the handle of the session that
\* announces it.
C23_NoSendAfterRemoval ==
  [][\A t \in Threads :
       bc'[t].att # bc[t].att /\ MidFanOut(t)'
         => LET h == Head(bc[t].todo) IN
              /\ bc'[t].att = Append(bc[t].att, h)
              /\ h \in Handles(clients)
              /\ ~PastRemoval(h)
              /\ rmCount[h] = 0
              /\ pc[h] # "done"
              /\ bc[t].msg.type = "user_leave" => h # t]_vars

\* One session has removed and closed its handle and a later fan-out has
\* delivered to another connection.
C23_Witness ==
  \E c \in Sessions : \E t \in Threads \ {c} :
    /\ pc[c] = "done" /\ sock[c] = "closed" /\ rmCount[c] = 1
    /\ MidFanOut(t) /\ bc[t].ok # {}
    /\ \A i \in DOMAIN bc[t].snap : bc[t].snap[i] # c

====
